---- MODULE Spec2Model ----
(***************************************************************************)
(* A model of MMSeqs2Runner (scripts/mmseqs2.py): the search lifecycle     *)
(* _search_mmseqs2 (submit, poll, download), the template selection        *)
(* process_templates / download_templates, and the public methods run_job, *)
(* download_templates and shuffle_templates called one after another.      *)
(*                                                                         *)
(* Python strings are sequences of one-character strings, so that upper(), *)
(* split("_"), len() and the comma-joined sidecar are computed, not        *)
(* assumed.  The remote services are the environment: every response is    *)
(* drawn from a small set.                                                 *)
(***************************************************************************)
EXTENDS Naturals, Sequences, FiniteSets, TLC

VARIABLES
    \* ---- search lifecycle (_search_mmseqs2) ----
    pc,              \* position in _search_mmseqs2
    out,             \* the local `out`: the last response dictionary
    archive,         \* content of self.tarfile on disk (NoFile: absent)
    nSubmit,         \* POST /ticket/msa requests of the current invocation
    nPoll,           \* GET /ticket/<id> requests of the current invocation
    nDownload,       \* GET /result/download/<id> requests of the invocation
    slept,           \* seconds of the sleep that immediately precedes, else 0
    lastSubmitId,    \* history: id carried by the latest submit response
    polledIds,       \* history: ticket ids polled in the current invocation
    pollUnparsable,  \* history: some poll body of the invocation was not JSON
    offScript,       \* history: a response outside the well-behaved script
    completeSeen,    \* history: a response with status COMPLETE was received
    \* ---- template selection (process_templates, download_templates) ----
    tpc,             \* position in process_templates
    templates,       \* the argument `templates`
    table,           \* lines of pdb70.m8 read so far (their target column)
    pdbs,            \* the local list `pdbs`
    check_duplicates,\* the local list `check_duplicates`
    appended,        \* history: appended[i] = number of appends made by row i
    gpcrdb,          \* answers of the activation-state service, by PDB id
    klifs,           \* answers of the conformation service, by PDB id
    queries,         \* history: classification-service queries, in order
    sidecar,         \* content of template_pdbs.txt
    requested,       \* codes of the last template-service request
    result,          \* what process_templates returned or raised
    shuffling_templates, \* self.shuffling_templates
    n_templates,     \* self.n_templates
    \* ---- the call in progress or last made on the runner ----
    lastOp,          \* history: the public method called last
    callerList,      \* the list a caller passed to download_templates, now
    callerBefore,    \* history: that list as it was when the call was made
    readList,        \* history: the list shuffle_templates read from the sidecar
    shuffleCalled,   \* history: random.shuffle ran in the last call
    warnings,        \* history: warnings logged by the last call
    hasSidecar,      \* template_pdbs.txt exists
    configured       \* history: shuffling_templates as the constructor set it

searchVars == <<pc, out, archive, nSubmit, nPoll, nDownload, slept,
                lastSubmitId, polledIds, pollUnparsable, offScript,
                completeSeen>>
selectVars == <<tpc, templates, table, pdbs, check_duplicates, appended,
                gpcrdb, klifs, queries, sidecar, requested, result,
                shuffling_templates, n_templates>>
callVars == <<lastOp, callerList, callerBefore, readList, shuffleCalled,
              warnings, hasSidecar, configured>>
vars == <<searchVars, selectVars, callVars>>

(***************************************************************************)
(* Bounds of the model.                                                    *)
(***************************************************************************)
\* transient submit answers (UNKNOWN, RATELIMIT) the service gives per call
MaxSubmits == 2
\* transient poll answers (UNKNOWN, RUNNING, PENDING) per invocation
MaxPolls == 2
\* lines of the result table
MaxRows == 2

(***************************************************************************)
(* Search service.                                                         *)
(***************************************************************************)
Statuses == {"UNKNOWN", "RATELIMIT", "PENDING", "RUNNING", "COMPLETE", "ERROR"}
TicketIds == {"t1", "t2"}
NoId == "no id"
NoFile == "no file"
NoOut == [status |-> "none", id |-> NoId]
\* a response body that is not JSON
Unparsable == [json |-> FALSE, status |-> "", id |-> NoId]

\* Response bodies of POST /ticket/msa: not JSON, or {id, status}.
SubmitBodies ==
    {Unparsable} \cup [json : {TRUE}, status : Statuses, id : TicketIds]

\* Response bodies of GET /ticket/<idx>: not JSON, or the ticket idx with its
\* status.
StatusBodies(idx) ==
    {Unparsable} \cup [json : {TRUE}, status : Statuses, id : {idx}]

\* res.json() guarded by `except ValueError`: a body that is not JSON becomes
\* the dictionary {"status": "UNKNOWN"}, which has no "id" key.
ParseOrUnknown(body) ==
    IF body.json
    THEN [status |-> body.status, id |-> body.id]
    ELSE [status |-> "UNKNOWN", id |-> NoId]

_submit(body) == ParseOrUnknown(body)

_status(body) == ParseOrUnknown(body)

\* 5 + np.random.randint(0, 5)
SleepBase == 5
RandHigh == 5
\* a random part that may reach its upper end
SleepSecondsInclusive == {SleepBase + r : r \in 0..RandHigh}
SleepSeconds == {SleepBase + r : r \in 0..(RandHigh - 1)}

SubmitRetry == {"UNKNOWN", "RATELIMIT"}
PollRetry == {"UNKNOWN", "RUNNING", "PENDING"}
Stopped == {"returned", "failed", "keyerror"}

SearchInit ==
    /\ pc = "idle"
    /\ out = NoOut
    /\ archive = NoFile
    /\ nSubmit = 0
    /\ nPoll = 0
    /\ nDownload = 0
    /\ slept = 0
    /\ lastSubmitId = NoId
    /\ polledIds = {}
    /\ pollUnparsable = FALSE
    /\ offScript = FALSE
    /\ completeSeen = FALSE

\* The well-behaved script of a service: submits answered UNKNOWN/RATELIMIT
\* and then with a ticket, polls answered PENDING/RUNNING and then COMPLETE.
SubmitOnScript(body) ==
    \/ ~body.json
    \/ body.json /\ body.status \in {"UNKNOWN", "RATELIMIT", "PENDING", "RUNNING",
                                     "COMPLETE"}
PollOnScript(body) ==
    body.json /\ body.status \in {"PENDING", "RUNNING", "COMPLETE"}

\* the test of line 210 left out
ArchiveNeverExists == FALSE
\* line 210: the archive is on disk, return at once
ArchiveExists == archive # NoFile

\* lines 210-211: _search_mmseqs2 is entered
SearchEnter ==
    /\ pc' = IF ArchiveExists THEN "returned" ELSE "submit"
    /\ out' = NoOut
    /\ nSubmit' = 0 /\ nPoll' = 0 /\ nDownload' = 0
    /\ slept' = 0
    /\ lastSubmitId' = NoId
    /\ polledIds' = {}
    /\ pollUnparsable' = FALSE
    /\ offScript' = FALSE
    /\ completeSeen' = FALSE
    /\ UNCHANGED archive

\* lines 210-211: a call of _search_mmseqs2
SearchStart ==
    /\ pc \in {"idle"} \cup Stopped
    /\ SearchEnter
    /\ UNCHANGED <<selectVars, callVars>>

\* One POST /ticket/msa and its answer; the service stops answering with a
\* transient status after MaxSubmits submits.
DoSubmit(next) ==
    \E body \in SubmitBodies :
        /\ _submit(body).status \in SubmitRetry => nSubmit < MaxSubmits
        /\ out' = _submit(body)
        /\ nSubmit' = nSubmit + 1
        /\ slept' = 0
        /\ lastSubmitId' = _submit(body).id
        /\ offScript' = (offScript \/ ~SubmitOnScript(body))
        /\ completeSeen' = (completeSeen \/ _submit(body).status = "COMPLETE")
        /\ pc' = next
        /\ UNCHANGED <<archive, nPoll, nDownload, polledIds, pollUnparsable,
                       selectVars, callVars>>

DoSleep(next) ==
    \E d \in SleepSeconds :
        /\ slept' = d
        /\ pc' = next
        /\ UNCHANGED <<out, archive, nSubmit, nPoll, nDownload, lastSubmitId,
                       polledIds, pollUnparsable, offScript, completeSeen,
                       selectVars, callVars>>

Goto(next) ==
    /\ pc' = next
    /\ UNCHANGED <<out, archive, nSubmit, nPoll, nDownload, slept,
                   lastSubmitId, polledIds, pollUnparsable, offScript,
                   completeSeen, selectVars, callVars>>

\* line 213
Submit == pc = "submit" /\ DoSubmit("sleep_first")

\* line 215
SleepFirst == pc = "sleep_first" /\ DoSleep("submit_loop")

\* line 216
SubmitLoop ==
    /\ pc = "submit_loop"
    /\ Goto(IF out.status \in SubmitRetry THEN "resubmit_sleep" ELSE "log_id")

\* line 218
ResubmitSleep == pc = "resubmit_sleep" /\ DoSleep("resubmit")

\* line 219
Resubmit == pc = "resubmit" /\ DoSubmit("submit_loop")

\* line 221: the f-string reads out['id']
LogId ==
    /\ pc = "log_id"
    /\ Goto(IF out.id = NoId THEN "keyerror" ELSE "poll_loop")

\* line 223
PollLoop ==
    /\ pc = "poll_loop"
    /\ Goto(IF out.status \in PollRetry THEN "poll_sleep" ELSE "finish")

\* line 224
PollSleep == pc = "poll_sleep" /\ DoSleep("poll")

\* the ticket id the poll of line 225 asks for
PollId(o) == o.id

\* line 225: out = self._status(out["id"])
Poll ==
    /\ pc = "poll"
    /\ \/ /\ PollId(out) = NoId
          /\ Goto("keyerror")
       \/ /\ PollId(out) # NoId
          /\ \E body \in StatusBodies(PollId(out)) :
                /\ _status(body).status \in PollRetry => nPoll < MaxPolls
                /\ out' = _status(body)
                /\ nPoll' = nPoll + 1
                /\ slept' = 0
                /\ polledIds' = polledIds \cup {PollId(out)}
                /\ pollUnparsable' = (pollUnparsable \/ ~body.json)
                /\ offScript' = (offScript \/ ~PollOnScript(body))
                /\ completeSeen' = (completeSeen \/ _status(body).status = "COMPLETE")
                /\ pc' = "poll_loop"
                /\ UNCHANGED <<archive, nSubmit, nDownload, lastSubmitId,
                               selectVars, callVars>>

\* lines 175-193: the archive of ticket idx is written to self.tarfile
_download(idx) ==
    /\ archive' = idx
    /\ nDownload' = nDownload + 1

\* an ERROR status that falls through like any other status
FinishKindNoRaise(status) ==
    CASE status = "COMPLETE" -> "download"
      [] OTHER -> "return"
\* a COMPLETE status whose archive is not fetched
FinishKindNoDownload(status) ==
    CASE status = "ERROR" -> "raise"
      [] OTHER -> "return"
\* what lines 227-239 do with the final status
FinishKind(status) ==
    CASE status = "COMPLETE" -> "download"
      [] status = "ERROR" -> "raise"
      [] OTHER -> "return"

\* lines 227-239
Finish ==
    /\ pc = "finish"
    /\ \/ /\ FinishKind(out.status) = "download"
          /\ _download(out.id)
          /\ pc' = "returned"
       \/ /\ FinishKind(out.status) = "raise"
          /\ pc' = "failed"
          /\ UNCHANGED <<archive, nDownload>>
       \/ /\ FinishKind(out.status) = "return"
          /\ pc' = "returned"
          /\ UNCHANGED <<archive, nDownload>>
    /\ slept' = 0
    /\ UNCHANGED <<out, nSubmit, nPoll, lastSubmitId, polledIds,
                   pollUnparsable, offScript, completeSeen, selectVars, callVars>>

_search_mmseqs2 ==
    \/ SearchStart
    \/ Submit
    \/ SleepFirst
    \/ SubmitLoop
    \/ ResubmitSleep
    \/ Resubmit
    \/ LogId
    \/ PollLoop
    \/ PollSleep
    \/ Poll
    \/ Finish

\* the steps of one invocation after its start
SearchStep ==
    \/ Submit
    \/ SleepFirst
    \/ SubmitLoop
    \/ ResubmitSleep
    \/ Resubmit
    \/ LogId
    \/ PollLoop
    \/ PollSleep
    \/ Poll
    \/ Finish

(***************************************************************************)
(* Python strings and the criteria list.                                   *)
(***************************************************************************)
LowerLetters == <<"a","b","c","d","e","f","g","h","i","j","k","l","m",
                  "n","o","p","q","r","s","t","u","v","w","x","y","z">>
UpperLetters == <<"A","B","C","D","E","F","G","H","I","J","K","L","M",
                  "N","O","P","Q","R","S","T","U","V","W","X","Y","Z">>

UpperMap ==
    [c \in {LowerLetters[i] : i \in 1..Len(LowerLetters)} |->
        UpperLetters[CHOOSE i \in 1..Len(LowerLetters) : LowerLetters[i] = c]]

\* str.upper() on one character
UpperChar(c) == IF c \in DOMAIN UpperMap THEN UpperMap[c] ELSE c

\* str.upper()
upper(s) == [i \in 1..Len(s) |-> UpperChar(s[i])]

\* pdb.split("_")[0]
SplitFirst(s) ==
    LET us == {i \in 1..Len(s) : s[i] = "_"}
    IN  IF us = {} THEN s
        ELSE SubSeq(s, 1, (CHOOSE i \in us : \A j \in us : i <= j) - 1)

\* lines 273-275: the PDB id of a target code, chain dropped, upper-cased
PdbId(pdb) == upper(SplitFirst(pdb))

\* An element of `templates`: a str (its characters) or a 3-tuple of strs.
Str(s) == [kind |-> "str", val |-> s]
Tup(a, b, c) == [kind |-> "tuple", val |-> <<a, b, c>>]

RangeOf(seq) == {seq[i] : i \in 1..Len(seq)}

\* `x in templates` for a str x
InList(s, list) == Str(s) \in RangeOf(list)

\* line 266: [t.upper() for t in templates if isinstance(t, str)]
templates_upper(list) ==
    {upper(list[i].val) : i \in {j \in 1..Len(list) : list[j].kind = "str"}}

Active == <<"A","c","t","i","v","e">>
Inactive == <<"I","n","a","c","t","i","v","e">>
Intermediate == <<"I","n","t","e","r","m","e","d","i","a","t","e">>
GProtein == <<"G"," ","p","r","o","t","e","i","n">>
Arrestin == <<"A","r","r","e","s","t","i","n">>

\* line 277
ActivationStates == {Active, Inactive, Intermediate, GProtein, Arrestin}
\* line 291, 293
DfgValues == {"in", "out", "out-like"}
\* line 297, 299
HelixValues == {"in", "out"}
\* line 303
SaltValues == {"yes", "no", "all"}

(***************************************************************************)
(* Inputs of the model: target codes of the result table, criteria lists.  *)
(***************************************************************************)
T1abcA == <<"1","a","b","c","_","A">>
T1ABCB == <<"1","A","B","C","_","B">>
T2xyzA == <<"2","x","y","z","_","A">>
Targets == {T1abcA, T1ABCB, T2xyzA}

\* caller-supplied exclusion ids (PDB ids without chain), in either case
ExclusionLists ==
    {<<>>, <<Str(<<"1","a","b","c">>)>>, <<Str(<<"1","A","B","C">>)>>}

LiteralLists ==
    {<<Str(T1abcA)>>, <<Str(T1abcA), Str(T1ABCB)>>, <<Str(T1ABCB), Str(T2xyzA)>>}

\* activation-state names a caller may pass; "active" is not one of the five
ActivationNames == {Active, GProtein, <<"a","c","t","i","v","e">>}
ActivationLists ==
    {<<Str(n)>> \o x : n \in ActivationNames, x \in ExclusionLists}

\* conformation criteria a caller may pass, valid and invalid values
DfgInputs == {"in", "all", "up"}
HelixInputs == {"out", "all", "out-like"}
SaltInputs == {"yes", "no", "all", "maybe"}
ConformationLists ==
    {<<Tup(d, h, s)>> \o x :
        d \in DfgInputs, h \in HelixInputs, s \in SaltInputs, x \in ExclusionLists}

CriteriaLists ==
    {<<>>} \cup LiteralLists \cup ActivationLists \cup ConformationLists

(***************************************************************************)
(* Classification services.                                                *)
(***************************************************************************)
NoData == [isDict |-> FALSE, state |-> <<>>, hasSP |-> FALSE, spType |-> <<>>]
\* GET gpcrdb.org/services/structure/<PDBID>
GpcrdbAnswers ==
    {NoData} \cup
    [isDict : {TRUE}, state : {Active, Inactive}, hasSP : {FALSE}, spType : {<<>>}] \cup
    [isDict : {TRUE}, state : {Active, Inactive}, hasSP : {TRUE},
     spType : {GProtein}] \cup
    {[isDict |-> TRUE, state |-> GProtein, hasSP |-> TRUE, spType |-> GProtein]}

\* rj[0] == 400
NotFound == [found |-> FALSE, DFG |-> "", ac_helix |-> "", dist |-> 0]
\* salt_bridge_17_24, in tenths of an Angstrom
Distances == {0, 45, 46}
\* structures_pdb_list followed by structure_conformation
KlifsAnswers ==
    {NotFound} \cup
    [found : {TRUE}, DFG : {"in", "out-like"}, ac_helix : {"in", "out"},
     dist : Distances]

\* line 318: 4.5 Angstrom, in tenths
SaltBridgeCutoff == 45

\* lines 318-321
ref_sb(dist) == IF dist > 0 /\ dist <= SaltBridgeCutoff THEN "yes" ELSE "no"

\* an acceptance that looks at the state only
ActivationAcceptsStateOnly(rj, activation_state) ==
    rj.isDict /\ rj.state = activation_state

\* lines 282-288: does the answer rj accept a row under the filter
ActivationAccepts(rj, activation_state) ==
    IF rj.isDict /\ rj.state = activation_state THEN TRUE
    ELSE IF rj.isDict /\ rj.hasSP THEN rj.spType = activation_state
    ELSE FALSE

\* the test of line 311 inverted
ResolvableInverted(rj) == ~rj.found
\* line 311: rj[0] != 400
Resolvable(rj) == rj.found

\* lines 291-306: the criteria tuple c = templates[0] is validated
CriteriaError(c) ==
    IF c[1] \notin DfgValues /\ c[1] # "all" THEN "DFG value invalid"
    ELSE IF c[2] \notin HelixValues /\ c[2] # "all" THEN "ac_helix value invalid"
    ELSE IF c[3] \notin SaltValues THEN "salt_bridge value invalid"
    ELSE "ok"

\* the eight branches with the salt-bridge test of the third one dropped
DecideThirdBranchSlip(dfg, ac_helix, salt_bridge, rj) ==
    IF dfg # "all" /\ ac_helix # "all" /\ salt_bridge # "all"
    THEN rj.DFG = dfg /\ rj.ac_helix = ac_helix /\ salt_bridge = ref_sb(rj.dist)
    ELSE IF dfg # "all" /\ ac_helix # "all" /\ salt_bridge = "all"
    THEN rj.DFG = dfg /\ rj.ac_helix = ac_helix
    ELSE IF dfg # "all" /\ ac_helix = "all" /\ salt_bridge # "all"
    THEN rj.DFG = dfg
    ELSE IF dfg # "all" /\ ac_helix = "all" /\ salt_bridge = "all"
    THEN rj.DFG = dfg
    ELSE IF dfg = "all" /\ ac_helix # "all" /\ salt_bridge # "all"
    THEN rj.ac_helix = ac_helix /\ salt_bridge = ref_sb(rj.dist)
    ELSE IF dfg = "all" /\ ac_helix # "all" /\ salt_bridge = "all"
    THEN rj.ac_helix = ac_helix
    ELSE IF dfg = "all" /\ ac_helix = "all" /\ salt_bridge # "all"
    THEN salt_bridge = ref_sb(rj.dist)
    ELSE dfg = "all" /\ ac_helix = "all" /\ salt_bridge = "all"

\* lines 322-352: the eight branches
Decide(dfg, ac_helix, salt_bridge, rj) ==
    IF dfg # "all" /\ ac_helix # "all" /\ salt_bridge # "all"
    THEN rj.DFG = dfg /\ rj.ac_helix = ac_helix /\ salt_bridge = ref_sb(rj.dist)
    ELSE IF dfg # "all" /\ ac_helix # "all" /\ salt_bridge = "all"
    THEN rj.DFG = dfg /\ rj.ac_helix = ac_helix
    ELSE IF dfg # "all" /\ ac_helix = "all" /\ salt_bridge # "all"
    THEN rj.DFG = dfg /\ salt_bridge = ref_sb(rj.dist)
    ELSE IF dfg # "all" /\ ac_helix = "all" /\ salt_bridge = "all"
    THEN rj.DFG = dfg
    ELSE IF dfg = "all" /\ ac_helix # "all" /\ salt_bridge # "all"
    THEN rj.ac_helix = ac_helix /\ salt_bridge = ref_sb(rj.dist)
    ELSE IF dfg = "all" /\ ac_helix # "all" /\ salt_bridge = "all"
    THEN rj.ac_helix = ac_helix
    ELSE IF dfg = "all" /\ ac_helix = "all" /\ salt_bridge # "all"
    THEN salt_bridge = ref_sb(rj.dist)
    ELSE dfg = "all" /\ ac_helix = "all" /\ salt_bridge = "all"

\* line 290: is the PDB id left out of the conformation path by the caller's list
ExcludedRaw(pdbid, list) == InList(pdbid, list)

\* a seen list that is never consulted
SeenNever(pdbid, dups) == FALSE

\* line 277: `pdbid not in check_duplicates`
Seen(pdbid, dups) == pdbid \in RangeOf(dups)

\* lines 271-356: what one line of the table, with target code pdb, does to
\* pdbs and check_duplicates when `templates` is not empty.  g and k are the
\* answers the two services give for a PDB id they were not yet asked about.
Row(pdb, g, k) ==
    LET pdbid == PdbId(pdb)
        first == templates[1]
        \* lines 277-288
        condA == /\ first.kind = "str"
                 /\ first.val \in ActivationStates
                 /\ ~Seen(pdbid, check_duplicates)
                 /\ pdbid \notin templates_upper(templates)
        rjA   == IF pdbid \in DOMAIN gpcrdb THEN gpcrdb[pdbid] ELSE g
        accA  == condA /\ ActivationAccepts(rjA, first.val)
        pdbs1 == IF accA THEN Append(pdbs, pdb) ELSE pdbs
        dups1 == IF accA THEN Append(check_duplicates, pdbid) ELSE check_duplicates
        \* lines 290-352
        condB == /\ Len(first.val) = 3
                 /\ ~Seen(pdbid, dups1)
                 /\ ~ExcludedRaw(pdbid, templates)
        err   == IF condB THEN CriteriaError(first.val) ELSE "ok"
        rjB   == IF pdbid \in DOMAIN klifs THEN klifs[pdbid] ELSE k
        accB  == /\ condB
                 /\ err = "ok"
                 /\ Resolvable(rjB)
                 /\ Decide(first.val[1], first.val[2], first.val[3], rjB)
        \* lines 354-356
        lit   == ~condB /\ InList(pdb, templates)
        pdbs2 == IF accB \/ lit THEN Append(pdbs1, pdb) ELSE pdbs1
        dups2 == IF accB THEN Append(dups1, pdbid) ELSE dups1
    IN  [pdbs |-> pdbs2,
         dups |-> dups2,
         n |-> (IF accA THEN 1 ELSE 0) + (IF accB \/ lit THEN 1 ELSE 0),
         err |-> err,
         askedG |-> condA,
         askedK |-> condB /\ err = "ok",
         rjA |-> rjA,
         rjB |-> rjB,
         pdbid |-> pdbid]

\* the answers a service can give to the query of this row: any, when the
\* row asks about a PDB id for the first time
GpcrdbChoices(pdb) ==
    IF templates # <<>> /\ Row(pdb, NoData, NotFound).askedG
                       /\ PdbId(pdb) \notin DOMAIN gpcrdb
    THEN GpcrdbAnswers ELSE {NoData}
KlifsChoices(pdb, g) ==
    IF templates # <<>> /\ Row(pdb, g, NotFound).askedK
                       /\ PdbId(pdb) \notin DOMAIN klifs
    THEN KlifsAnswers ELSE {NotFound}

\* a sidecar that holds the first code only
SidecarFirstOnly(list) ==
    IF list = <<>> THEN <<>> ELSE Head(list) \o <<",">>

\* lines 359-361: every code followed by a comma
RECURSIVE SidecarText(_)
SidecarText(list) ==
    IF list = <<>> THEN <<>>
    ELSE Head(list) \o <<",">> \o SidecarText(Tail(list))

\* line 380: the orders random.shuffle can leave the list in
Shuffles(list) ==
    {[i \in 1..Len(list) |-> list[p[i]]] : p \in Permutations(1..Len(list))}

\* a slice that takes one code more than the limit
TruncateOneMore(list, n) ==
    SubSeq(list, 1, IF n + 1 < Len(list) THEN n + 1 ELSE Len(list))

\* line 382: pdbs[: self.n_templates]
Truncate(list, n) == SubSeq(list, 1, IF n < Len(list) THEN n ELSE Len(list))

\* line 48: n_templates (default 20) is drawn from 1..MaxLimit
MaxLimit == 2

SelectInit ==
    /\ tpc = "idle"
    /\ templates = <<>>
    /\ table = <<>>
    /\ pdbs = <<>>
    /\ check_duplicates = <<>>
    /\ appended = <<>>
    /\ gpcrdb = <<>>
    /\ klifs = <<>>
    /\ queries = <<>>
    /\ sidecar = <<>>
    /\ requested = <<>>
    /\ result = "none"
    /\ shuffling_templates \in BOOLEAN
    /\ n_templates \in 1..MaxLimit

CallInit ==
    /\ lastOp = "none"
    /\ callerList = <<>>
    /\ callerBefore = <<>>
    /\ readList = <<>>
    /\ shuffleCalled = FALSE
    /\ warnings = {}
    /\ hasSidecar = FALSE
    /\ configured = shuffling_templates

NoTemplates == "No templates found."
CannotShuffle == "Impossible to shuffle with 1 template only."

\* lines 263-264: process_templates starts on a criteria list with empty
\* candidate and seen lists; nothing of an earlier call is carried over
StartWith(t, op) ==
    /\ templates' = t
    /\ tpc' = "loop"
    /\ table' = <<>>
    /\ pdbs' = <<>>
    /\ check_duplicates' = <<>>
    /\ appended' = <<>>
    /\ queries' = <<>>
    /\ requested' = <<>>
    /\ result' = "none"
    /\ lastOp' = op
    /\ callerList' = <<>>
    /\ callerBefore' = <<>>
    /\ readList' = <<>>
    /\ shuffleCalled' = FALSE
    /\ warnings' = {}
    /\ UNCHANGED <<gpcrdb, klifs, sidecar, hasSidecar, shuffling_templates,
                   n_templates, configured>>

\* line 241: process_templates is called with a criteria list
ProcessStart ==
    /\ tpc = "idle"
    /\ \E t \in CriteriaLists : StartWith(t, "process_templates")
    /\ UNCHANGED searchVars

\* lines 269-356: one line of pdb70.m8
ProcessRow ==
    /\ tpc = "loop"
    /\ Len(table) < MaxRows
    /\ \E pdb \in Targets :
       \E g \in GpcrdbChoices(pdb) :
       \E k \in KlifsChoices(pdb, g) :
        /\ table' = Append(table, pdb)
        /\ IF templates = <<>>
           THEN /\ appended' = Append(appended, 0)
                /\ UNCHANGED <<tpc, pdbs, check_duplicates, gpcrdb, klifs,
                               queries, result>>
           ELSE LET r == Row(pdb, g, k)
                    i == Len(table) + 1 IN
                /\ pdbs' = r.pdbs
                /\ check_duplicates' = r.dups
                /\ appended' = Append(appended, r.n)
                /\ gpcrdb' = IF r.askedG THEN (r.pdbid :> r.rjA) @@ gpcrdb
                             ELSE gpcrdb
                /\ klifs' = IF r.askedK THEN (r.pdbid :> r.rjB) @@ klifs
                            ELSE klifs
                /\ queries' = queries
                       \o (IF r.askedG THEN <<<<"gpcrdb", r.pdbid, i>>>> ELSE <<>>)
                       \o (IF r.askedK THEN <<<<"klifs", r.pdbid, i>>>> ELSE <<>>)
                /\ tpc' = IF r.err = "ok" THEN "loop" ELSE "raised"
                /\ result' = IF r.err = "ok" THEN result ELSE r.err
    /\ UNCHANGED <<templates, sidecar, requested, shuffling_templates,
                   n_templates, searchVars, callVars>>

\* lines 379-380: random.shuffle(pdbs) reorders the list object it is given
ShuffleInCallerList(list, shuffling) ==
    IF Len(list) > 1 /\ shuffling THEN Shuffles(list) ELSE {list}

\* an empty list that is turned into the empty marker silently
download_templatesSilent(list, after, shuffling, warned) ==
    IF Len(list) = 0
    THEN /\ result' = ""
         /\ after = list
         /\ requested' = <<>>
         /\ shuffleCalled' = FALSE
         /\ warnings' = warned
    ELSE /\ after \in ShuffleInCallerList(list, shuffling)
         /\ shuffleCalled' = (Len(list) > 1 /\ shuffling)
         /\ requested' = Truncate(after, n_templates)
         /\ result' = "templates_101"
         /\ warnings' = warned

\* lines 365-392: download_templates(list) under the runner's settings; the
\* list is shuffled in place, then its first n_templates codes are requested.
\* shuffling is self.shuffling_templates at the call, warned the warnings
\* the calling method has logged before it
download_templates(list, after, shuffling, warned) ==
    IF Len(list) = 0
    THEN /\ result' = ""
         /\ after = list
         /\ requested' = <<>>
         /\ shuffleCalled' = FALSE
         /\ warnings' = warned \cup {NoTemplates}
    ELSE /\ after \in ShuffleInCallerList(list, shuffling)
         /\ shuffleCalled' = (Len(list) > 1 /\ shuffling)
         /\ requested' = Truncate(after, n_templates)
         /\ result' = "templates_101"
         /\ warnings' = warned

\* lines 358-363: the table is read to its end; the sidecar is written and
\* download_templates(pdbs) is called
ProcessEnd ==
    /\ tpc = "loop"
    /\ sidecar' = SidecarText(pdbs)
    /\ hasSidecar' = TRUE
    /\ \E after \in Shuffles(pdbs) :
        /\ download_templates(pdbs, after, shuffling_templates, {})
        /\ pdbs' = after
    /\ tpc' = "done"
    /\ UNCHANGED <<templates, table, check_duplicates, appended, gpcrdb, klifs,
                   queries, shuffling_templates, n_templates, searchVars,
                   lastOp, callerList, callerBefore, readList, configured>>

process_templates ==
    \/ ProcessStart
    \/ ProcessRow
    \/ ProcessEnd

(***************************************************************************)
(* The runner's public methods called one after another: run_job,          *)
(* process_templates, download_templates and shuffle_templates.            *)
(***************************************************************************)
\* the criteria lists of the calls: none, or a literal list
RunnerCriteria == {<<>>} \cup {<<Str(t)>> : t \in {T1abcA, T2xyzA}}
                         \cup {<<Str(T1abcA), Str(T2xyzA)>>}

NoCall == tpc \in {"idle", "done", "raised"}

\* line 241: process_templates is called on a runner used before
ProcessCall ==
    /\ NoCall
    /\ \E t \in RunnerCriteria : StartWith(t, "process_templates")
    /\ UNCHANGED searchVars

\* lines 421-445: run_job finds the archive of an earlier search (lines
\* 210-211), extracts it and passes its criteria list to process_templates
RunJobCall ==
    /\ NoCall
    /\ pc \in {"idle"} \cup Stopped
    /\ ArchiveExists
    /\ SearchEnter
    /\ \E t \in RunnerCriteria : StartWith(t, "run_job")
    /\ UNCHANGED <<out, nSubmit, nPoll, nDownload, slept, lastSubmitId,
                   polledIds, pollUnparsable, offScript, completeSeen>>

RECURSIVE SplitFrom(_, _)
\* str.split(","): the fields between the commas, cur being the field begun
SplitFrom(text, cur) ==
    IF text = <<>> THEN <<cur>>
    ELSE IF Head(text) = ","
         THEN <<cur>> \o SplitFrom(Tail(text), <<>>)
         ELSE SplitFrom(Tail(text), Append(cur, Head(text)))

\* a read that keeps the empty last field
ReadSidecarKeepLast(text) == SplitFrom(text, <<>>)

\* lines 462-467: the sidecar is read, split on commas, and an empty last
\* field is dropped
ReadSidecar(text) ==
    LET fields == SplitFrom(text, <<>>) IN
    IF fields[Len(fields)] = <<>> THEN SubSeq(fields, 1, Len(fields) - 1)
    ELSE fields

\* a flag that shuffle_templates leaves alone
FlagKept(read, flag) == flag
\* a flag that shuffle_templates switches on whatever is stored
FlagAlwaysOn(read, flag) == TRUE
\* lines 470-471: shuffling is switched on when more than one code is stored
FlagAfterShuffle(read, flag) == IF Len(read) > 1 THEN TRUE ELSE flag

\* lines 472-473: otherwise a warning is logged
WarnsNoShuffle(read) == IF Len(read) > 1 THEN {} ELSE {CannotShuffle}

\* the lists a caller hands to download_templates: distinct codes
MaxList == 3
CodeOrder == <<T1abcA, T2xyzA, T1ABCB>>
CandidateLists ==
    {SubSeq(CodeOrder, 1, IF n < Len(CodeOrder) THEN n ELSE Len(CodeOrder)) :
        n \in 0..MaxList}

\* line 365: download_templates is called with a list of the caller
DownloadCall ==
    /\ NoCall
    /\ \E list \in CandidateLists :
       \E after \in Shuffles(list) :
        /\ download_templates(list, after, shuffling_templates, {})
        /\ callerBefore' = list
        /\ callerList' = after
    /\ lastOp' = "download_templates"
    /\ readList' = <<>>
    /\ UNCHANGED <<tpc, templates, table, pdbs, check_duplicates, appended,
                   gpcrdb, klifs, queries, sidecar, hasSidecar,
                   shuffling_templates, n_templates, configured, searchVars>>

\* lines 447-475: shuffle_templates reads the sidecar of the last
\* process_templates and calls download_templates on what it read
shuffle_templates ==
    /\ NoCall
    /\ hasSidecar
    /\ LET read == ReadSidecar(sidecar) IN
        /\ readList' = read
        /\ shuffling_templates' = FlagAfterShuffle(read, shuffling_templates)
        /\ \E after \in Shuffles(read) :
            download_templates(read, after,
                               FlagAfterShuffle(read, shuffling_templates),
                               WarnsNoShuffle(read))
    /\ lastOp' = "shuffle_templates"
    /\ callerList' = <<>>
    /\ callerBefore' = <<>>
    /\ UNCHANGED <<tpc, templates, table, pdbs, check_duplicates, appended,
                   gpcrdb, klifs, queries, sidecar, hasSidecar, n_templates,
                   configured, searchVars>>

\* line 462: without a sidecar the open() fails
ShuffleNoSidecar ==
    /\ NoCall
    /\ ~hasSidecar
    /\ lastOp' = "shuffle_templates"
    /\ result' = "FileNotFoundError"
    /\ requested' = <<>>
    /\ readList' = <<>>
    /\ callerList' = <<>>
    /\ callerBefore' = <<>>
    /\ shuffleCalled' = FALSE
    /\ warnings' = {}
    /\ UNCHANGED <<tpc, templates, table, pdbs, check_duplicates, appended,
                   gpcrdb, klifs, queries, sidecar, hasSidecar,
                   shuffling_templates, n_templates, configured, searchVars>>

Runner ==
    \/ ProcessCall
    \/ RunJobCall
    \/ ProcessRow
    \/ ProcessEnd
    \/ DownloadCall
    \/ shuffle_templates
    \/ ShuffleNoSidecar

(***************************************************************************)
(* Specifications.                                                         *)
(***************************************************************************)
\* a freshly constructed runner: no archive, nothing selected yet
Init == SearchInit /\ SelectInit /\ CallInit

\* a runner constructed in a job directory that holds the archive of an
\* earlier search
RunnerInit ==
    /\ pc = "idle"
    /\ out = NoOut
    /\ archive \in TicketIds
    /\ nSubmit = 0
    /\ nPoll = 0
    /\ nDownload = 0
    /\ slept = 0
    /\ lastSubmitId = NoId
    /\ polledIds = {}
    /\ pollUnparsable = FALSE
    /\ offScript = FALSE
    /\ completeSeen = FALSE
    /\ SelectInit
    /\ CallInit

\* the search lifecycle alone
SearchSpec == Init /\ [][_search_mmseqs2]_vars

\* the lifecycle does not stop between two of its steps
SearchFairSpec == SearchSpec /\ WF_vars(SearchStep)

\* the template selection alone
SelectSpec == Init /\ [][process_templates]_vars

\* the public methods called in any order
RunnerSpec == RunnerInit /\ [][Runner]_vars

\* the runner as a whole; the properties below are checked under the
\* specification of the operation they are about
Next == _search_mmseqs2 \/ process_templates \/ Runner
Spec == Init /\ [][Next]_vars

(***************************************************************************)
(* Properties of the search lifecycle (SearchSpec, SearchFairSpec).        *)
(***************************************************************************)

\* C2: a poll answer that is not JSON is never fatal: the lifecycle does not
\* end in an error because of it, it goes on polling.
C2_UnparsablePollNotFatal == ~(pollUnparsable /\ pc = "keyerror")

\* C3: the lifecycle stops only on COMPLETE or ERROR, and whenever it returns
\* normally the archive is on disk.
C3_StopsOnlyWhenTerminal ==
    /\ (pc \in Stopped /\ nSubmit > 0) => out.status \in {"COMPLETE", "ERROR"}
    /\ pc = "returned" => archive # NoFile

\* C4: while the archive is on disk, a call of the lifecycle returns at once:
\* it sends no submit, no poll and no download and leaves the archive as it is.
C4_NoRequestWhenArchiveExists ==
    [][archive # NoFile =>
          /\ pc' = "returned"
          /\ nSubmit' = 0 /\ nPoll' = 0 /\ nDownload' = 0
          /\ archive' = archive]_vars

\* a call that found the archive left by an earlier, completed call
C4_Witness ==
    /\ pc = "returned"
    /\ archive \in TicketIds
    /\ nSubmit = 0 /\ nPoll = 0 /\ nDownload = 0

C5_NoDownloadBeforeComplete == nDownload > 0 => completeSeen

C5_OneDownloadOfLastTicket ==
    (pc \in Stopped /\ nSubmit > 0 /\ ~offScript) =>
        /\ pc = "returned"
        /\ out.status = "COMPLETE"
        /\ nDownload = 1
        /\ archive = lastSubmitId
        /\ polledIds \subseteq {lastSubmitId}

\* C5: with a service that answers submits UNKNOWN/RATELIMIT finitely often
\* and then with a ticket, and polls PENDING/RUNNING finitely often and then
\* COMPLETE, a call that starts without archive terminates, having downloaded
\* exactly once, the ticket of the last submit; nothing is downloaded before a
\* COMPLETE status was received.
C5_CompletesWithOneDownload ==
    /\ [](C5_NoDownloadBeforeComplete /\ C5_OneDownloadOfLastTicket)
    /\ (pc = "submit") ~> (pc \in Stopped)

\* a resubmit, at least two polls, then the download
C5_Witness ==
    /\ pc = "returned"
    /\ ~offScript
    /\ nSubmit > 1
    /\ nPoll > 1
    /\ nDownload = 1
    /\ archive = lastSubmitId

\* C6: once a response carries ERROR no request follows, the call ends with
\* the remediation error and without archive, and the next call submits again.
C6_ErrorEndsTheCall ==
    [][/\ (out.status = "ERROR" /\ pc \notin Stopped) =>
              /\ nSubmit' = nSubmit /\ nPoll' = nPoll /\ nDownload' = nDownload
              /\ archive' = archive
              /\ out' = out
       /\ (pc' \in Stopped /\ out'.status = "ERROR") =>
              (pc' = "failed" /\ archive' = NoFile)
       /\ pc = "failed" => pc' = "submit"]_vars

\* a call that failed on the ERROR answer of a poll
C6_Witness ==
    /\ pc = "failed"
    /\ out.status = "ERROR"
    /\ nPoll > 0
    /\ archive = NoFile

\* a step that sends a submit after the first one of the call
ResubmitStep == nSubmit > 0 /\ nSubmit' = nSubmit + 1
\* a step that sends a poll
PollStep == nPoll' = nPoll + 1
\* a step that moves the lifecycle to the position of a resubmit or a poll
ToRequestStep == pc' \in {"resubmit", "poll"} /\ pc' # pc

\* C16: every resubmit and every poll is immediately preceded by a sleep of
\* at least 5 and less than 10 seconds; a resubmit is sent exactly when the
\* latest submit was answered UNKNOWN or RATELIMIT; no poll is sent and the
\* call does not end before a submit was answered with another status.
C16_SleepBeforeEveryRequest ==
    [][/\ ToRequestStep => (slept' \in 5..9 /\ nSubmit' = nSubmit
                                            /\ nPoll' = nPoll)
       /\ ResubmitStep => /\ pc = "resubmit" /\ slept \in 5..9
                          /\ out.status \in SubmitRetry
                          /\ nPoll = 0
       /\ PollStep => /\ pc = "poll" /\ slept \in 5..9
                      /\ nPoll = 0 => out.status \notin SubmitRetry
       /\ (pc' \in Stopped /\ nSubmit > 0 /\ nPoll = 0 /\ pc \notin Stopped)
             => out.status \notin SubmitRetry]_vars

\* a call that resubmitted once and polled twice before its download
C16_Witness ==
    /\ pc = "returned"
    /\ nSubmit = 2
    /\ nPoll = 2
    /\ nDownload = 1

(***************************************************************************)
(* Properties of the template selection (SelectSpec).                      *)
(***************************************************************************)

\* C1: the candidate list never holds two entries with the same PDB id
\* (upper-cased, chain dropped).
C1_NoDuplicatePdbId ==
    \A i, j \in 1..Len(pdbs) : i # j => PdbId(pdbs[i]) # PdbId(pdbs[j])

\* criteria with an unrecognized enum value
InvalidEnum(list) ==
    /\ list # <<>>
    /\ \/ list[1].kind = "tuple" /\ CriteriaError(list[1].val) # "ok"
       \/ list[1].kind = "str" /\ list[1].val \in ActivationNames \ ActivationStates

\* C7: criteria with an unrecognized enum value make the selector fail, for
\* every table, before any classification service is queried.
C7_InvalidEnumFails ==
    InvalidEnum(templates) => (tpc # "done" /\ queries = <<>>)

IsFilter(list) ==
    /\ list # <<>>
    /\ \/ list[1].kind = "tuple"
       \/ list[1].kind = "str" /\ list[1].val \in ActivationStates

\* the caller's exclusion ids, compared without regard to case
ExcludedAnyCase(pdbid, list) ==
    \E j \in 2..Len(list) : list[j].kind = "str" /\ upper(list[j].val) = pdbid

\* C8: under activation-state or conformation criteria no row whose PDB id is
\* an exclusion id, in whatever letter case, is appended.
C8_ExcludedNeverAppended ==
    IsFilter(templates) =>
        \A i \in 1..Len(table) :
            ExcludedAnyCase(PdbId(table[i]), templates) => appended[i] = 0

\* the observed salt bridge: "yes" iff the distance lies in (0, 4.5]
SaltObserved(dist) == IF 0 < dist /\ dist <= 45 THEN "yes" ELSE "no"

\* every criteria field other than "all" equals the observed value
Matches(c, obs) ==
    /\ c[1] # "all" => obs.DFG = c[1]
    /\ c[2] # "all" => obs.ac_helix = c[2]
    /\ c[3] # "all" => SaltObserved(obs.dist) = c[3]

ValidConformation(list) ==
    list # <<>> /\ list[1].kind = "tuple" /\ CriteriaError(list[1].val) = "ok"

\* no earlier row with the PDB id of row i was accepted
NotYetAccepted(i) ==
    \A j \in 1..(i - 1) : PdbId(table[j]) = PdbId(table[i]) => appended[j] = 0

\* C9: under valid conformation criteria a row with a resolvable, not yet
\* accepted, non-excluded PDB id is accepted exactly when every criteria field
\* other than "all" equals the observed value.
C9_AcceptsIffFieldsMatch ==
    ValidConformation(templates) =>
        \A i \in 1..Len(table) :
            LET id == PdbId(table[i]) IN
            ( /\ id \in DOMAIN klifs
              /\ klifs[id].found
              /\ NotYetAccepted(i)
              /\ ~ExcludedAnyCase(id, templates) ) =>
                (appended[i] = 1 <=> Matches(templates[1].val, klifs[id]))

\* (in, all, all): a row with DFG "in" is accepted whatever its helix and salt
\* bridge are, and a row with another DFG is rejected
C9_Witness ==
    /\ templates = <<Tup("in", "all", "all")>>
    /\ Len(table) = 2
    /\ appended = <<1, 0>>
    /\ PdbId(table[2]) \in DOMAIN klifs
    /\ klifs[PdbId(table[1])].ac_helix = "in"
    /\ klifs[PdbId(table[1])].dist = 46
    /\ klifs[PdbId(table[2])].found
    /\ klifs[PdbId(table[2])].DFG = "out-like"

C15_EmptyCriteriaSelectsNothing ==
    (lastOp = "process_templates" /\ templates = <<>>) =>
        /\ queries = <<>>
        /\ pdbs = <<>>
        /\ \A i \in 1..Len(appended) : appended[i] = 0
        /\ tpc # "raised"
        /\ tpc = "done" => /\ result = ""
                           /\ requested = <<>>
                           /\ NoTemplates \in warnings

\* an empty criteria list over a table of two rows
C15_Witness ==
    /\ lastOp = "process_templates"
    /\ templates = <<>>
    /\ tpc = "done"
    /\ Len(table) = 2
    /\ result = ""

IsActivationFilter(list) ==
    list # <<>> /\ list[1].kind = "str" /\ list[1].val \in ActivationStates

\* the response is an object whose state, or whose signalling protein type,
\* equals the filter
ObjectMatches(rj, F) ==
    rj.isDict /\ (rj.state = F \/ (rj.hasSP /\ rj.spType = F))

\* C17: under an activation-state filter F a row whose PDB id is neither
\* already accepted nor excluded is accepted exactly when the response is an
\* object whose state or signalling protein type equals F; a response that
\* is no object skips the row without error; no row is appended twice.
C17_ActivationAcceptance ==
    IsActivationFilter(templates) =>
        /\ tpc # "raised"
        /\ \A i \in 1..Len(table) :
            LET id == PdbId(table[i]) IN
            /\ appended[i] \in {0, 1}
            /\ (NotYetAccepted(i) /\ ~ExcludedAnyCase(id, templates)) =>
                /\ id \in DOMAIN gpcrdb
                /\ appended[i] = 1 <=> ObjectMatches(gpcrdb[id], templates[1].val)

\* filter "G protein": the first row's response has both the state and the
\* signalling protein type equal to the filter and is appended once, the
\* second row's response is no object and is skipped
C17_Witness ==
    /\ IsActivationFilter(templates)
    /\ templates[1].val = GProtein
    /\ tpc = "done"
    /\ Len(table) = 2
    /\ appended = <<1, 0>>
    /\ gpcrdb[PdbId(table[1])].state = GProtein
    /\ gpcrdb[PdbId(table[1])].hasSP
    /\ gpcrdb[PdbId(table[1])].spType = GProtein
    /\ PdbId(table[2]) \in DOMAIN gpcrdb
    /\ ~gpcrdb[PdbId(table[2])].isDict
    /\ pdbs = <<table[1]>>

\* the rows that sent a query to the activation-state service
GpcrdbRows == {queries[q][3] : q \in {x \in 1..Len(queries) : queries[x][1] = "gpcrdb"}}

\* C18, as stated: under activation-state criteria the activation-state
\* service is queried at most once for each PDB id.
C18_OneQueryPerPdbId ==
    IsActivationFilter(templates) =>
        \A a, b \in 1..Len(queries) :
            (a # b /\ queries[a][1] = "gpcrdb" /\ queries[b][1] = "gpcrdb")
                => queries[a][2] # queries[b][2]

\* C18, corrected: a PDB id is recorded as seen when a row carrying it is
\* accepted, and only then; a row sends a query exactly when no earlier row
\* with its PDB id was accepted and the id is not excluded, so a rejected id
\* is asked about again by every later row that carries it.
C18_QueryUnlessAccepted ==
    IsActivationFilter(templates) =>
        /\ RangeOf(check_duplicates) =
               {PdbId(table[i]) : i \in {r \in 1..Len(table) : appended[r] = 1}}
        /\ Len(check_duplicates) =
               Cardinality({r \in 1..Len(table) : appended[r] = 1})
        /\ \A i \in 1..Len(table) :
            i \in GpcrdbRows <=>
                (NotYetAccepted(i) /\ ~ExcludedAnyCase(PdbId(table[i]), templates))
        /\ \A a, b \in 1..Len(queries) :
            (a # b /\ queries[a][1] = "gpcrdb" /\ queries[b][1] = "gpcrdb")
                => queries[a][3] # queries[b][3]

\* two chains of one structure: the first row is rejected and the second
\* asks again; and a pair of rows of which the first is accepted and the
\* second, with the same PDB id, asks nothing
C18_Witness ==
    /\ IsActivationFilter(templates)
    /\ Len(table) = 2
    /\ PdbId(table[1]) = PdbId(table[2])
    /\ appended = <<0, 0>>
    /\ GpcrdbRows = {1, 2}
    /\ tpc = "done"

(***************************************************************************)
(* Properties of the public methods called in any order (RunnerSpec).      *)
(***************************************************************************)
Min(a, b) == IF a < b THEN a ELSE b

Distinct(list) == \A i, j \in 1..Len(list) : i # j => list[i] # list[j]

\* C11: download_templates, given n distinct candidates under limit L,
\* requests exactly min(L, n) codes, pairwise distinct and drawn from the
\* candidates: the first min(L, n) of the list as the shuffle left it, which
\* without shuffling are the first min(L, n) candidates in their order.
C11_RequestsFirstMinCodes ==
    lastOp = "download_templates" =>
        LET n == Len(callerBefore)
            m == Min(n_templates, n) IN
        /\ Len(requested) = m
        /\ RangeOf(requested) \subseteq RangeOf(callerBefore)
        /\ Distinct(requested)
        /\ requested = SubSeq(callerList, 1, m)
        /\ RangeOf(callerList) = RangeOf(callerBefore)
        /\ ~shuffling_templates => requested = SubSeq(callerBefore, 1, m)

\* three candidates under limit 2 with shuffling on: the third candidate is
\* requested first, so the limit was applied to the shuffled list
C11_Witness ==
    /\ lastOp = "download_templates"
    /\ Len(callerBefore) = 3
    /\ n_templates = 2
    /\ shuffleCalled
    /\ Len(requested) = 2
    /\ requested[1] = callerBefore[3]

\* C12: download_templates leaves the list it is given as it was: same
\* elements in the same order after the call.
C12_CallerListUnchanged ==
    lastOp = "download_templates" => callerList = callerBefore

RECURSIVE AcceptedRows(_, _)
\* the target codes of the accepted rows, in the order of the result table
AcceptedRows(tab, app) ==
    IF tab = <<>> THEN <<>>
    ELSE (IF Head(app) = 0 THEN <<>>
          ELSE IF Head(app) = 1 THEN <<Head(tab)>>
          ELSE <<Head(tab), Head(tab)>>)
         \o AcceptedRows(Tail(tab), Tail(app))

\* C13: once process_templates has completed, the list read back from the
\* sidecar (split on commas, empty last element dropped) is the complete
\* candidate list in result-table order, whatever the limit and the shuffle
\* flag are, the empty list included; shuffle_templates reads exactly it.
C13_SidecarRoundTrip ==
    tpc = "done" =>
        /\ hasSidecar
        /\ ReadSidecar(sidecar) = AcceptedRows(table, appended)
        /\ lastOp = "shuffle_templates" =>
               readList = AcceptedRows(table, appended)

\* two candidates under limit 1 with shuffling on: the second was
\* requested, and shuffle_templates read both back in table order
C13_Witness ==
    /\ tpc = "done"
    /\ lastOp = "shuffle_templates"
    /\ n_templates = 1
    /\ Len(table) = 2
    /\ appended = <<1, 1>>
    /\ readList = table
    /\ requested = <<table[2]>>

\* C14: shuffle_templates shuffles exactly when at least 2 candidates are
\* stored, whatever the configured flag was; with exactly 1 stored candidate
\* it warns and requests that candidate, unshuffled.
C14_ShufflesOnlyTwoOrMore ==
    (lastOp = "shuffle_templates" /\ hasSidecar) =>
        /\ shuffleCalled <=> Len(readList) >= 2
        /\ Len(readList) >= 2 =>
              /\ CannotShuffle \notin warnings
              /\ result = "templates_101"
              /\ Len(requested) = Min(n_templates, Len(readList))
              /\ RangeOf(requested) \subseteq RangeOf(readList)
        /\ Len(readList) = 1 =>
              /\ CannotShuffle \in warnings
              /\ requested = readList
              /\ result = "templates_101"

\* a runner constructed with shuffling off whose shuffle_templates, with two
\* stored candidates, requested them in the other order
C14_Witness ==
    /\ lastOp = "shuffle_templates"
    /\ ~configured
    /\ Len(readList) = 2
    /\ n_templates = 2
    /\ shuffleCalled
    /\ requested = <<readList[2], readList[1]>>

\* C19: shuffle_templates with at least 2 stored candidates leaves the
\* runner's shuffle flag on; the flag is never switched off again, so later
\* calls shuffle; nothing else changes the flag, which with fewer than 2
\* stored candidates stays as configured.
C19_FlagSetByShuffleTemplates ==
    [][/\ shuffling_templates => shuffling_templates'
       /\ shuffling_templates' # shuffling_templates =>
             (lastOp' = "shuffle_templates" /\ Len(readList') >= 2)
       /\ (lastOp' = "shuffle_templates" /\ Len(readList') >= 2) =>
             shuffling_templates'
       /\ (lastOp' = "download_templates" /\ shuffling_templates
                                          /\ Len(callerBefore') > 1) =>
             shuffleCalled'
       /\ ~shuffling_templates' => ~configured']_vars

\* a runner constructed with shuffling off that shuffles in download_templates
C19_Witness ==
    /\ ~configured
    /\ shuffling_templates
    /\ lastOp = "download_templates"
    /\ Len(callerBefore) = 2
    /\ shuffleCalled
    /\ callerList # callerBefore

\* C20: the sidecar is written by the end of process_templates, with the
\* candidate list of that call, and by nothing else: download_templates and
\* shuffle_templates leave it as it is; after a call with empty criteria it
\* is empty and shuffle_templates returns the empty marker.
C20_SidecarOfLastSelection ==
    [][/\ (tpc = "loop" /\ tpc' = "done") =>
             ReadSidecar(sidecar') = AcceptedRows(table', appended')
       /\ ~(tpc = "loop" /\ tpc' = "done") =>
             (sidecar' = sidecar /\ hasSidecar' = hasSidecar)
       /\ (tpc' = "done" /\ templates' = <<>>) => sidecar' = <<>>
       /\ (tpc' = "done" /\ templates' = <<>>
                         /\ lastOp' = "shuffle_templates") =>
             (result' = "" /\ requested' = <<>>)]_vars

\* a selection with empty criteria over a table of two rows has left an
\* empty sidecar, and shuffle_templates returned the empty marker
C20_Witness ==
    /\ tpc = "done"
    /\ templates = <<>>
    /\ Len(table) = 2
    /\ sidecar = <<>>
    /\ lastOp = "shuffle_templates"
    /\ result = ""
    /\ NoTemplates \in warnings
====
